---------------------------- MODULE Spec2Model ----------------------------
(***************************************************************************)
(* The two byte-stream bridges of the repository:                          *)
(*   brokk_bridge.py   BrokkBridge: one thread, a selector over a TCP      *)
(*                     socket and a serial port, and the reconnecting      *)
(*                     supervisor run();                                   *)
(*   tcp_forwarder.py  handle_client: two forward_data threads over two    *)
(*                     TCP sockets.                                        *)
(* A behaviour is one run of one of the two programs (variable program).   *)
(*                                                                         *)
(* Bytes are not interpreted by either program, so the k-th byte a source  *)
(* delivers in a session is written k: every byte of a stream is distinct, *)
(* and loss, duplication and reordering all show in the histories rd, wr.  *)
(***************************************************************************)
EXTENDS Naturals, Sequences, FiniteSets

\* Bounds of the model.
MaxAttempts == 3   \* calls of _setup_tcp_socket in one run()
MaxBytes    == 3   \* bytes a source delivers in one session and direction
MaxChunk    == 2   \* bytes one read returns
MaxOthers   == 1   \* connections main accepts beyond the first

VARIABLES
  program,       \* which script runs: "brokk_bridge" or "tcp_forwarder"
  \* ---- brokk_bridge.py: BrokkBridge
  pc,            \* position of run()
  running,       \* self.running
  sock,          \* self.sock: "None" or "socket"
  ser,           \* self.ser: "None" or "Serial"
  tcpState,      \* the TCP socket of the latest dial: "none", "open", "closed"
  serState,      \* the serial handle of the latest open: "none", "open", "closed"
  registered,    \* the keys registered in self.selector
  events,        \* the keys select() returned that the for loop has yet to serve
  success,       \* run()'s local: what run_bridge_loop returned
  retcode,       \* what run() returned: 0 or 1, not_returned before
  stopRequested, \* history: stop() has been called
  nDials,        \* history: calls of _setup_tcp_socket
  nDialFails,    \* history: those that returned None
  nSleeps,       \* history: time.sleep(self.reconnect_delay) calls begun
  nSessions,     \* history: calls of run_bridge_loop
  lastEvent,     \* history: what the latest handler or loop step met
  timer,         \* seconds left of the select or time.sleep that run() is in
  stopAge,       \* history: seconds run() has spent in select or sleep since stop()
  closes,        \* history: close() calls on the latest socket and serial handle
  escaped,       \* history: an exception has left _cleanup
  log_level,     \* config['log_level'], the threshold of the logger
  logged,        \* warning and error records emitted since the latest dial
                 \* or, in a session, since the session began
  nonblocking,   \* the latest TCP socket is in non-blocking mode
  \* ---- tcp_forwarder.py: one session of handle_client
  hc,            \* position of main / handle_client
  th,            \* th[i]: position of thread i's forward_data
  buf,           \* buf[i]: length of the chunk thread i holds in data
  sk,            \* sk[s]: client_socket and pusr_socket, as this process holds them
  peer,          \* peer[s]: the remote end of s: "connected", "fin" or "reset"
  inq,           \* inq[s]: bytes the remote end sent that no recv has taken yet
  reported,      \* history: "Session ended" has been logged (line 82)
  mainpc,        \* main: "accept" in its loop, or how the process has ended
  others,        \* handle_client threads of further connections, not returned
  \* ---- both programs: per direction, the bytes read and the bytes written
  rd,            \* rd[d]: bytes the reads of direction d returned, this session
  wr             \* wr[d]: bytes the destination of direction d accepted

bridgeVars == <<pc, running, sock, ser, tcpState, serState, registered, events,
                success, retcode, stopRequested, nDials, nDialFails, nSleeps,
                nSessions, lastEvent, timer, stopAge, closes, escaped,
                log_level, logged, nonblocking>>
fwdVars == <<hc, th, buf, sk, peer, inq, reported, mainpc, others>>
histVars == <<rd, wr>>
vars == <<program, bridgeVars, fwdVars, histVars>>

\* Direction 1 is TCP -> RS485 (Edge -> PUSR), direction 2 is RS485 -> TCP
\* (PUSR -> Edge).
Directions == {1, 2}

IsPrefix(s, t) == Len(s) <= Len(t) /\ \A i \in 1..Len(s) : s[i] = t[i]

\* The next n bytes the source of direction d delivers.
Chunk(d, n) == [i \in 1..n |-> Len(rd[d]) + i]

\* The first k bytes of chunk c.
Take(c, k) == [i \in 1..k |-> c[i]]

\* BrokkBridge.__init__, line 40: self.reconnect_delay = 5 (seconds).
reconnect_delay == 5

\* run_bridge_loop, line 230: selector.select(timeout=1.0) (seconds).
select_timeout == 1

\* The positions of run() inside time.sleep(self.reconnect_delay).
Sleeps == {"sleep_dial", "sleep_lost", "sleep_exc"}

\* The argument of time.sleep at lines 258, 278 and 286, after n earlier
\* sleeps: always self.reconnect_delay.
backoff_delay_grows(n) == reconnect_delay + n

backoff_delay(n) == reconnect_delay

\* setup_logging, lines 44-46, and --log-level, lines 361-364: the threshold
\* of the logger. DEBUG and WARNING pass the same warning and error records
\* as INFO, the default (line 387).
LogLevels == {"INFO", "ERROR"}

\* The numeric levels of the logging module.
Severity(l) ==
  CASE l = "DEBUG" -> 10
    [] l = "INFO" -> 20
    [] l = "WARNING" -> 30
    [] OTHER -> 40

\* self.logger.warning(rec) / self.logger.error(rec): the record is emitted
\* when its level reaches the threshold, and dropped otherwise.
Emit(l, rec) == IF Severity(l) >= Severity(log_level) THEN {rec} ELSE {}

\* The timer when run() moves to position p: the sleep's length in a sleep.
TimerAt(p) == IF p \in Sleeps THEN backoff_delay(nSleeps) ELSE 0

-----------------------------------------------------------------------------
(***************************************************************************)
(* brokk_bridge.py                                                         *)
(***************************************************************************)

\* BrokkBridge._cleanup: unregister and close whatever self.sock and
\* self.ser hold, and forget them. Exceptions of unregister/close are
\* swallowed.
\* close() can raise; the handle is released all the same. The try/except
\* pairs of lines 144-147 and 155-159 keep the exception inside _cleanup.
close_exception_escapes_unguarded(raised) == raised

close_exception_escapes(raised) == FALSE

_cleanup_sock_only ==
  /\ sock' = "None"
  /\ tcpState' = IF sock # "None" THEN "closed" ELSE tcpState
  /\ registered' = registered \ {"tcp"}
  /\ closes' = [closes EXCEPT !.tcp = IF sock # "None" THEN @ + 1 ELSE @]
  /\ UNCHANGED <<ser, serState, escaped>>

_cleanup_keeps_handles ==
  /\ tcpState' = IF sock # "None" THEN "closed" ELSE tcpState
  /\ serState' = IF ser # "None" /\ serState = "open" THEN "closed" ELSE serState
  /\ registered' = {}
  /\ closes' = [tcp |-> IF sock # "None" THEN closes.tcp + 1 ELSE closes.tcp,
                serial |-> IF ser # "None" /\ serState = "open"
                           THEN closes.serial + 1 ELSE closes.serial]
  /\ UNCHANGED <<sock, ser, escaped>>

_cleanup ==
  /\ sock' = "None"
  /\ tcpState' = IF sock # "None" THEN "closed" ELSE tcpState
  /\ ser' = "None"
  /\ serState' = IF ser # "None" /\ serState = "open" THEN "closed" ELSE serState
  /\ registered' = {}
  /\ closes' = [tcp |-> IF sock # "None" THEN closes.tcp + 1 ELSE closes.tcp,
                serial |-> IF ser # "None" /\ serState = "open"
                           THEN closes.serial + 1 ELSE closes.serial]
  /\ \E raised \in BOOLEAN :
       /\ raised => sock # "None" \/ (ser # "None" /\ serState = "open")
       /\ escaped' = (escaped \/ close_exception_escapes(raised))

\* BrokkBridge.stop, called by main's signal_handler on SIGINT and SIGTERM:
\* at any moment between two steps of run(). main installs the handler
\* before it calls run(), so Python never raises KeyboardInterrupt in run().
stop ==
  /\ program = "brokk_bridge"
  /\ pc # "done"
  /\ running' = FALSE
  /\ stopRequested' = TRUE
  /\ UNCHANGED <<pc, sock, ser, tcpState, serState, registered, events, success,
                 retcode, nDials, nDialFails, nSleeps, nSessions, lastEvent>>
  /\ UNCHANGED <<timer, stopAge, closes, escaped>>
  /\ UNCHANGED <<log_level, logged, nonblocking>>
  /\ UNCHANGED <<program, fwdVars, histVars>>

\* run(), line 248: self.running = True.
run_start ==
  /\ program = "brokk_bridge"
  /\ pc = "start"
  /\ running' = TRUE
  /\ pc' = "while"
  /\ UNCHANGED <<sock, ser, tcpState, serState, registered, events, success,
                 retcode, stopRequested, nDials, nDialFails, nSleeps, nSessions,
                 lastEvent>>
  /\ UNCHANGED <<timer, stopAge, closes, escaped>>
  /\ UNCHANGED <<log_level, logged, nonblocking>>
  /\ UNCHANGED <<program, fwdVars, histVars>>

\* run(), line 252: while self.running.
run_while_ignores_stop ==
  /\ program = "brokk_bridge"
  /\ pc = "while"
  /\ pc' = "dial"
  /\ UNCHANGED <<running, sock, ser, tcpState, serState, registered, events,
                 success, retcode, stopRequested, nDials, nDialFails, nSleeps,
                 nSessions, lastEvent>>
  /\ UNCHANGED <<timer, stopAge, closes, escaped>>
  /\ UNCHANGED <<log_level, logged, nonblocking>>
  /\ UNCHANGED <<program, fwdVars, histVars>>

run_while ==
  /\ program = "brokk_bridge"
  /\ pc = "while"
  /\ pc' = IF running THEN "dial" ELSE "final"
  /\ UNCHANGED <<running, sock, ser, tcpState, serState, registered, events,
                 success, retcode, stopRequested, nDials, nDialFails, nSleeps,
                 nSessions, lastEvent>>
  /\ UNCHANGED <<timer, stopAge, closes, escaped>>
  /\ UNCHANGED <<log_level, logged, nonblocking>>
  /\ UNCHANGED <<program, fwdVars, histVars>>

\* Where run() goes when _setup_tcp_socket returned None (lines 256-259):
\* into time.sleep(self.reconnect_delay), then continue.
dial_failed_no_sleep == "while"

dial_failed_to_serial == "serial"

dial_failed == "sleep_dial"

\* _setup_tcp_socket, lines 60-92: what it returns when create_connection
\* connected or raised, and the setsockopt calls of lines 72-82 all passed
\* (tuned) or one raised OSError. The OSError is caught at line 83: a warning,
\* and the function goes on to setblocking(False) and returns the socket.
_setup_tcp_socket_strict(connected, tuned) ==
  IF connected /\ tuned THEN "socket" ELSE "None"

_setup_tcp_socket(connected, tuned) ==
  IF connected THEN "socket" ELSE "None"

\* run(), lines 255-259: self.sock = self._setup_tcp_socket(), which returns
\* the connected socket or, on any exception, None.
run_dial ==
  /\ program = "brokk_bridge"
  /\ pc = "dial"
  /\ nDials < MaxAttempts
  /\ nDials' = nDials + 1
  /\ \E connected \in BOOLEAN, tuned \in BOOLEAN :
       /\ ~connected => tuned
       /\ IF _setup_tcp_socket(connected, tuned) # "None"
          THEN /\ sock' = "socket"
               /\ tcpState' = "open"
               /\ nonblocking' = TRUE
               /\ pc' = "serial"
               /\ closes' = [closes EXCEPT !.tcp = 0]
               /\ lastEvent' = IF tuned THEN "connected" ELSE "sockopt_error"
               /\ logged' = IF tuned THEN {}
                             ELSE Emit("WARNING", "Could not set all socket options")
               /\ UNCHANGED <<nDialFails, nSleeps, timer>>
          ELSE /\ sock' = "None"
               /\ pc' = dial_failed
               /\ nDialFails' = nDialFails + 1
               /\ nSleeps' = IF dial_failed \in Sleeps THEN nSleeps + 1 ELSE nSleeps
               /\ timer' = TimerAt(dial_failed)
               /\ lastEvent' = IF connected THEN "sockopt_error" ELSE "dial_error"
               /\ logged' = Emit("ERROR", "TCP connection failed")
                               \cup Emit("WARNING", "Retrying TCP connection")
               /\ UNCHANGED <<tcpState, closes, nonblocking>>
  /\ UNCHANGED <<running, ser, serState, registered, events, success, retcode,
                 stopRequested, nSessions, stopAge, escaped>>
  /\ UNCHANGED log_level
  /\ UNCHANGED <<program, fwdVars, histVars>>

\* Where run() goes when _setup_serial_port returned None (lines 262-264):
\* return 1.
serial_failed_retry == "sleep_dial"

serial_failed == "done"

\* The value of retcode while run() has not returned: no status of run().
not_returned == 2

\* What run() returns: 1 at line 264, after the serial port failed to open,
\* and 0 at line 290, after the loop.
exit_status_zero(serialFailed) == 0

exit_status(serialFailed) == IF serialFailed THEN 1 ELSE 0

\* run(), lines 261-264: self.ser = self._setup_serial_port(), which returns
\* the open port or, on any exception, None.
run_serial ==
  /\ program = "brokk_bridge"
  /\ pc = "serial"
  /\ \E opened \in BOOLEAN :
       IF opened
       THEN /\ ser' = "Serial"
            /\ serState' = "open"
            /\ pc' = "bridge"
            /\ closes' = [closes EXCEPT !.serial = 0]
            /\ UNCHANGED <<retcode, nSleeps, lastEvent, timer, logged>>
       ELSE /\ ser' = "None"
            /\ pc' = serial_failed
            /\ lastEvent' = "serial_open_error"
            /\ logged' = logged \cup Emit("ERROR", "Failed to open serial port")
                                 \cup Emit("ERROR", "Cannot open serial port. Exiting.")
            /\ retcode' = IF serial_failed = "done" THEN exit_status(TRUE)
                                                    ELSE retcode
            /\ nSleeps' = IF serial_failed = "done" THEN nSleeps ELSE nSleeps + 1
            /\ timer' = TimerAt(serial_failed)
            /\ UNCHANGED <<serState, closes>>
  /\ UNCHANGED <<running, sock, tcpState, registered, events, success,
                 stopRequested, nDials, nDialFails, nSessions, stopAge, escaped>>
  /\ UNCHANGED <<log_level, nonblocking>>
  /\ UNCHANGED <<program, fwdVars, histVars>>

\* run_bridge_loop, lines 223-226, called from run() line 268: register both
\* handles with the selector. The two register calls stand before the try of
\* run_bridge_loop: when one raises (epoll refuses the descriptor), the
\* exception reaches run()'s except Exception (lines 283-286): _cleanup, then
\* time.sleep(self.reconnect_delay).
run_bridge_enter ==
  /\ program = "brokk_bridge"
  /\ pc = "bridge"
  /\ nSessions' = nSessions + 1
  /\ rd' = [d \in Directions |-> <<>>]
  /\ wr' = [d \in Directions |-> <<>>]
  /\ events' = <<>>
  /\ \/ /\ registered' = {"tcp", "serial"}
        /\ lastEvent' = "none"
        /\ pc' = "loop"
        /\ logged' = {}
        /\ UNCHANGED <<sock, ser, tcpState, serState, nSleeps, timer, closes,
                       escaped>>
     \/ /\ lastEvent' = "register_error"
        /\ logged' = Emit("ERROR", "Unexpected error")
        /\ _cleanup
        /\ nSleeps' = nSleeps + 1
        /\ pc' = "sleep_exc"
        /\ timer' = TimerAt("sleep_exc")
  /\ UNCHANGED <<running, success, retcode, stopRequested, nDials, nDialFails,
                 stopAge>>
  /\ UNCHANGED <<log_level, nonblocking>>
  /\ UNCHANGED <<program, fwdVars>>

\* The lists selector.select can return: each registered key at most once, in
\* any order; the empty list is the 1 s timeout.
EventLists ==
  {<<>>, <<"tcp">>, <<"serial">>, <<"tcp", "serial">>, <<"serial", "tcp">>}

\* run_bridge_loop, line 229: the test of while self.running.
while_true(run) == TRUE

while_running(run) == run

\* run_bridge_loop, lines 229-230 and 240: the while test. With self.running
\* false the loop ends and True is returned; otherwise run() enters
\* selector.select(timeout=1.0).
run_bridge_loop ==
  /\ program = "brokk_bridge"
  /\ pc = "loop"
  /\ IF ~while_running(running)
     THEN /\ success' = TRUE
          /\ pc' = "post"
          /\ UNCHANGED timer
     ELSE /\ pc' = "select"
          /\ timer' = select_timeout
          /\ UNCHANGED success
  /\ UNCHANGED <<running, sock, ser, tcpState, serState, registered, retcode,
                 stopRequested, nDials, nDialFails, nSleeps, nSessions, events,
                 lastEvent, stopAge, closes, escaped>>
  /\ UNCHANGED <<log_level, logged, nonblocking>>
  /\ UNCHANGED <<program, fwdVars, histVars>>

\* run_bridge_loop, lines 230 and 242-244: selector.select returns. It returns
\* the ready keys as soon as there are any, and the empty list when its
\* timeout has run out; an exception of select is caught at line 242 and
\* False is returned.
run_select ==
  /\ program = "brokk_bridge"
  /\ pc = "select"
  /\ timer' = 0
  /\ \/ \E evs \in EventLists :
          /\ evs = <<>> => timer = 0
          /\ events' = evs
          /\ pc' = IF evs = <<>> THEN "loop" ELSE "dispatch"
          /\ UNCHANGED <<success, lastEvent, logged>>
     \/ /\ success' = FALSE
        /\ lastEvent' = "select_error"
        /\ logged' = logged \cup Emit("ERROR", "Bridge loop error")
        /\ pc' = "post"
        /\ UNCHANGED events
  /\ UNCHANGED <<running, sock, ser, tcpState, serState, registered, retcode,
                 stopRequested, nDials, nDialFails, nSleeps, nSessions, stopAge,
                 closes, escaped>>
  /\ UNCHANGED <<log_level, nonblocking>>
  /\ UNCHANGED <<program, fwdVars, histVars>>

\* One second passes while run() is inside selector.select or time.sleep.
\* stopAge counts the seconds that pass there after stop() has cleared
\* self.running.
tick ==
  /\ program = "brokk_bridge"
  /\ pc \in Sleeps \cup {"select"}
  /\ timer > 0
  /\ timer' = timer - 1
  /\ stopAge' = IF ~running /\ stopAge <= reconnect_delay
                THEN stopAge + 1 ELSE stopAge
  /\ UNCHANGED <<pc, running, sock, ser, tcpState, serState, registered, events,
                 success, retcode, stopRequested, nDials, nDialFails, nSleeps,
                 nSessions, lastEvent, closes, escaped>>
  /\ UNCHANGED <<log_level, logged, nonblocking>>
  /\ UNCHANGED <<program, fwdVars, histVars>>

\* run_bridge_loop, lines 232-238: what follows a handler's return value.
\* False ends run_bridge_loop with False; True goes on to the next key and,
\* after the last one, back to the while test.
HandlerReturn_continues(ok) ==
  /\ events' = Tail(events)
  /\ pc' = IF Tail(events) = <<>> THEN "loop" ELSE "dispatch"
  /\ success' = (success /\ ok)

HandlerReturn_first_only(ok) ==
  IF ok
  THEN /\ events' = <<>>
       /\ pc' = "loop"
       /\ UNCHANGED success
  ELSE /\ events' = <<>>
       /\ success' = FALSE
       /\ pc' = "post"

HandlerReturn_fatal(ok) ==
  IF ok
  THEN /\ events' = Tail(events)
       /\ pc' = IF Tail(events) = <<>> THEN "loop" ELSE "dispatch"
       /\ UNCHANGED success
  ELSE /\ events' = <<>>
       /\ success' = FALSE
       /\ pc' = "final"

HandlerReturn(ok) ==
  IF ok
  THEN /\ events' = Tail(events)
       /\ pc' = IF Tail(events) = <<>> THEN "loop" ELSE "dispatch"
       /\ UNCHANGED success
  ELSE /\ events' = <<>>
       /\ success' = FALSE
       /\ pc' = "post"

\* What sock.recv_into can do (lines 167-177).
TcpRecvOutcomes == {"BlockingIOError", "OSError", "eof", "data"}

\* What ser.write can do (lines 186-190): write_timeout=None makes it block
\* until every byte is written, or raise.
SerWriteOutcomes == {"ok", "error"}

\* What ser.in_waiting / ser.read can do (lines 197-201).
SerReadOutcomes == {"error", "empty", "data"}

\* What sock.sendall can do on the non-blocking socket (lines 208-216).
SendallOutcomes == {"ok", "BlockingIOError", "OSError"}

\* _handle_tcp_data's return value.
tcp_data_result_eof_ok(recv, w) ==
  CASE recv = "BlockingIOError" -> TRUE
    [] recv = "OSError" -> FALSE
    [] recv = "eof" -> TRUE
    [] OTHER -> w = "ok"

tcp_data_result(recv, w) ==
  CASE recv = "BlockingIOError" -> TRUE
    [] recv = "OSError" -> FALSE
    [] recv = "eof" -> FALSE
    [] OTHER -> w = "ok"

\* _handle_serial_data's return value.
serial_data_result_empty_ends(read, s) ==
  CASE read = "error" -> FALSE
    [] read = "empty" -> FALSE
    [] OTHER -> s = "ok"

serial_data_result_block_ok(read, s) ==
  CASE read = "error" -> FALSE
    [] read = "empty" -> TRUE
    [] OTHER -> s \in {"ok", "BlockingIOError"}

serial_data_result(read, s) ==
  CASE read = "error" -> FALSE
    [] read = "empty" -> TRUE
    [] OTHER -> s = "ok"

\* The warning or error record a handler writes for what it met (lines 172,
\* 176, 189, 212, 215 and 218).
HandlerLog(ev) ==
  CASE ev = "tcp_error" -> Emit("ERROR", "TCP recv error")
    [] ev = "tcp_eof" -> Emit("WARNING", "TCP connection closed by remote")
    [] ev = "serial_write_error" -> Emit("ERROR", "Serial write error")
    [] ev = "send_wouldblock" -> Emit("WARNING", "TCP send would block")
    [] ev = "send_error" -> Emit("ERROR", "TCP send error")
    [] ev = "serial_read_error" -> Emit("ERROR", "Serial read error")
    [] OTHER -> {}

\* _handle_tcp_data, lines 162-192: one recv_into of the TCP socket; n > 0
\* bytes are written to the serial port. k is the number of bytes the port
\* took before ser.write returned or raised.
_handle_tcp_data ==
  /\ program = "brokk_bridge"
  /\ pc = "dispatch"
  /\ Head(events) = "tcp"
  /\ \E recv \in TcpRecvOutcomes, w \in SerWriteOutcomes,
        n \in 1..MaxChunk, k \in 0..MaxChunk :
       /\ IF recv = "data"
          THEN /\ Len(rd[1]) + n <= MaxBytes
               /\ IF w = "ok" THEN k = n ELSE k < n
               /\ rd' = [rd EXCEPT ![1] = @ \o Chunk(1, n)]
               /\ wr' = [wr EXCEPT ![1] = @ \o Take(Chunk(1, n), k)]
               /\ lastEvent' = IF w = "ok" THEN "tcp_data" ELSE "serial_write_error"
          ELSE /\ w = "ok" /\ n = 1 /\ k = 0
               /\ UNCHANGED histVars
               /\ lastEvent' = CASE recv = "BlockingIOError" -> "tcp_wouldblock"
                                 [] recv = "OSError" -> "tcp_error"
                                 [] OTHER -> "tcp_eof"
       /\ HandlerReturn(tcp_data_result(recv, w))
  /\ logged' = logged \cup HandlerLog(lastEvent')
  /\ UNCHANGED <<running, sock, ser, tcpState, serState, registered, retcode,
                 stopRequested, nDials, nDialFails, nSleeps, nSessions>>
  /\ UNCHANGED <<timer, stopAge, closes, escaped>>
  /\ UNCHANGED <<log_level, nonblocking>>
  /\ UNCHANGED <<program, fwdVars>>

\* _handle_serial_data, lines 194-219: one read of the serial port; a
\* non-empty chunk goes to sock.sendall. The socket is non-blocking (line 86):
\* with its send buffer full sendall raises BlockingIOError after the k < n
\* bytes the buffer took.
_handle_serial_data ==
  /\ program = "brokk_bridge"
  /\ pc = "dispatch"
  /\ Head(events) = "serial"
  /\ \E read \in SerReadOutcomes, s \in SendallOutcomes,
        n \in 1..MaxChunk, k \in 0..MaxChunk :
       /\ IF read = "data"
          THEN /\ Len(rd[2]) + n <= MaxBytes
               /\ IF s = "ok" THEN k = n ELSE k < n
               /\ rd' = [rd EXCEPT ![2] = @ \o Chunk(2, n)]
               /\ wr' = [wr EXCEPT ![2] = @ \o Take(Chunk(2, n), k)]
               /\ lastEvent' = CASE s = "ok" -> "serial_data"
                                 [] s = "BlockingIOError" -> "send_wouldblock"
                                 [] OTHER -> "send_error"
          ELSE /\ s = "ok" /\ n = 1 /\ k = 0
               /\ UNCHANGED histVars
               /\ lastEvent' = IF read = "empty" THEN "serial_empty"
                                                 ELSE "serial_read_error"
       /\ HandlerReturn(serial_data_result(read, s))
  /\ logged' = logged \cup HandlerLog(lastEvent')
  /\ UNCHANGED <<running, sock, ser, tcpState, serState, registered, retcode,
                 stopRequested, nDials, nDialFails, nSleeps, nSessions>>
  /\ UNCHANGED <<timer, stopAge, closes, escaped>>
  /\ UNCHANGED <<log_level, nonblocking>>
  /\ UNCHANGED <<program, fwdVars>>

\* Where run() goes after run_bridge_loop and _cleanup (lines 273-278).
session_end_redial(run, ok) ==
  IF ~run THEN "final" ELSE "while"

session_end_exit(run, ok) ==
  "final"

session_end(run, ok) ==
  IF ~run THEN "final" ELSE IF ~ok THEN "sleep_lost" ELSE "while"

\* run(), lines 268-278: run_bridge_loop has returned; _cleanup; break when
\* stopped, sleep when the session was lost.
run_session_end ==
  /\ program = "brokk_bridge"
  /\ pc = "post"
  /\ _cleanup
  /\ pc' = session_end(running, success)
  /\ nSleeps' = IF session_end(running, success) = "sleep_lost"
                THEN nSleeps + 1 ELSE nSleeps
  /\ timer' = TimerAt(session_end(running, success))
  /\ logged' = IF session_end(running, success) = "sleep_lost"
               THEN logged \cup Emit("WARNING", "Connection lost. Reconnecting")
               ELSE logged
  /\ UNCHANGED <<running, events, success, retcode, stopRequested, nDials,
                 nDialFails, nSessions, lastEvent, stopAge>>
  /\ UNCHANGED <<log_level, nonblocking>>
  /\ UNCHANGED <<program, fwdVars, histVars>>

\* run(), lines 258, 278 and 286: time.sleep(self.reconnect_delay) returns.
\* A signal handler that runs meanwhile does not cut the sleep short: after
\* the handler the sleep goes on for the rest of its time.
run_sleep ==
  /\ program = "brokk_bridge"
  /\ pc \in Sleeps
  /\ timer = 0
  /\ pc' = "while"
  /\ UNCHANGED <<running, sock, ser, tcpState, serState, registered, events,
                 success, retcode, stopRequested, nDials, nDialFails, nSleeps,
                 nSessions, lastEvent>>
  /\ UNCHANGED <<timer, stopAge, closes, escaped>>
  /\ UNCHANGED <<log_level, logged, nonblocking>>
  /\ UNCHANGED <<program, fwdVars, histVars>>

\* run(), lines 288-290: after the loop, _cleanup and return 0.
run_return ==
  /\ program = "brokk_bridge"
  /\ pc = "final"
  /\ _cleanup
  /\ retcode' = exit_status(FALSE)
  /\ pc' = "done"
  /\ UNCHANGED <<running, events, success, stopRequested, nDials, nDialFails,
                 nSleeps, nSessions, lastEvent, timer, stopAge>>
  /\ UNCHANGED <<log_level, logged, nonblocking>>
  /\ UNCHANGED <<program, fwdVars, histVars>>

BridgeInit ==
  /\ pc = "start"
  /\ running = FALSE
  /\ sock = "None"
  /\ ser = "None"
  /\ tcpState = "none"
  /\ serState = "none"
  /\ registered = {}
  /\ events = <<>>
  /\ success = FALSE
  /\ retcode = not_returned
  /\ stopRequested = FALSE
  /\ nDials = 0
  /\ nDialFails = 0
  /\ nSleeps = 0
  /\ nSessions = 0
  /\ lastEvent = "none"
  /\ timer = 0
  /\ stopAge = 0
  /\ closes = [tcp |-> 0, serial |-> 0]
  /\ escaped = FALSE
  /\ log_level \in LogLevels
  /\ logged = {}
  /\ nonblocking = FALSE

\* A step of run(), the main thread; stop() comes from the signal handler.
RunStep ==
  \/ run_start
  \/ run_while
  \/ run_dial
  \/ run_serial
  \/ run_bridge_enter
  \/ run_bridge_loop
  \/ run_select
  \/ tick
  \/ _handle_tcp_data
  \/ _handle_serial_data
  \/ run_session_end
  \/ run_sleep
  \/ run_return

BridgeNext == stop \/ RunStep

-----------------------------------------------------------------------------
(***************************************************************************)
(* tcp_forwarder.py                                                        *)
(***************************************************************************)

Sockets == {"client", "pusr"}
Threads == {1, 2}

\* handle_client, lines 64-73: thread1 = forward_data(client_socket,
\* pusr_socket), thread2 = forward_data(pusr_socket, client_socket).
source(i) == IF i = 1 THEN "client" ELSE "pusr"
destination(i) == IF i = 1 THEN "pusr" ELSE "client"

\* A forward_data thread that has been started and has not returned.
Live(i) == th[i] \in {"recv", "wedged", "send", "shut_src", "shut_dst"}

\* main, line 123: server.accept() returns the edge device's connection, and
\* handle_client starts on it.
main_accept ==
  /\ program = "tcp_forwarder"
  /\ mainpc = "accept"
  /\ hc = "accept"
  /\ sk' = [sk EXCEPT !["client"].state = "open"]
  /\ hc' = "connect"
  /\ UNCHANGED <<th, buf, peer, inq, reported>>
  /\ UNCHANGED <<program, bridgeVars, histVars>>
  /\ UNCHANGED <<mainpc, others>>

\* main, lines 122-131: the loop goes straight back to server.accept() once
\* the handle_client thread of a connection is started, so it accepts the
\* next edge connection whatever the earlier sessions are doing. The model
\* follows the first session step by step and counts the further ones.
main_accept_more ==
  /\ program = "tcp_forwarder"
  /\ mainpc = "accept"
  /\ hc # "accept"
  /\ others < MaxOthers
  /\ others' = others + 1
  /\ UNCHANGED <<hc, th, buf, sk, peer, inq, reported, mainpc>>
  /\ UNCHANGED <<program, bridgeVars, histVars>>

\* The handle_client thread of a further connection returns.
other_session_end ==
  /\ program = "tcp_forwarder"
  /\ mainpc = "accept"
  /\ others > 0
  /\ others' = others - 1
  /\ UNCHANGED <<hc, th, buf, sk, peer, inq, reported, mainpc>>
  /\ UNCHANGED <<program, bridgeVars, histVars>>

\* The main thread ends and the process with it: every handle_client and
\* forward_data thread is a daemon thread (lines 67, 72 and 129) and ends
\* where it stands, and the system closes the sockets of the process.
process_exit ==
  /\ hc' = IF hc \in {"accept", "done"} THEN hc ELSE "killed"
  /\ th' = [i \in Threads |-> IF Live(i) THEN "killed" ELSE th[i]]
  /\ buf' = [i \in Threads |-> 0]
  /\ sk' = [s \in Sockets |->
              [sk[s] EXCEPT !.state = IF @ = "none" THEN "none" ELSE "closed"]]
  /\ others' = 0
  /\ UNCHANGED <<peer, inq, reported>>

\* main, lines 123-137: server.accept() or client_thread.start() raises
\* (no descriptor or no thread left, connection aborted). The exception
\* leaves the while loop to the except of line 133; the server socket is
\* closed and main returns.
main_accept_error ==
  /\ program = "tcp_forwarder"
  /\ mainpc = "accept"
  /\ mainpc' = "error_exit"
  /\ process_exit
  /\ UNCHANGED <<program, bridgeVars, histVars>>

\* signal_handler, lines 114-117: on SIGINT or SIGTERM, server.close() and
\* sys.exit(0).
signal_handler ==
  /\ program = "tcp_forwarder"
  /\ mainpc = "accept"
  /\ mainpc' = "signal_exit"
  /\ process_exit
  /\ UNCHANGED <<program, bridgeVars, histVars>>

\* handle_client, lines 59-61: create pusr_socket and connect it. When
\* socket.socket raises, pusr_socket stays None; when connect raises, the
\* socket exists, unconnected; both go to the except and the finally.
handle_client_connect ==
  /\ program = "tcp_forwarder"
  /\ mainpc = "accept"
  /\ hc = "connect"
  /\ \E res \in {"socket_error", "connect_error", "ok"} :
       /\ sk' = [sk EXCEPT !["pusr"].state =
                   CASE res = "socket_error" -> "none"
                     [] res = "connect_error" -> "unconnected"
                     [] OTHER -> "open"]
       /\ hc' = IF res = "ok" THEN "start1" ELSE "finally"
  /\ UNCHANGED <<th, buf, peer, inq, reported>>
  /\ UNCHANGED <<program, bridgeVars, histVars>>
  /\ UNCHANGED <<mainpc, others>>

\* handle_client, lines 75-76: thread1.start(), thread2.start(). start raises
\* RuntimeError when the system refuses a new thread; the exception goes to
\* the except and the finally of handle_client.
handle_client_start(i) ==
  /\ program = "tcp_forwarder"
  /\ mainpc = "accept"
  /\ hc = IF i = 1 THEN "start1" ELSE "start2"
  /\ \/ /\ th' = [th EXCEPT ![i] = "recv"]
        /\ hc' = IF i = 1 THEN "start2" ELSE "join1"
     \/ /\ hc' = "finally"
        /\ UNCHANGED th
  /\ UNCHANGED <<buf, sk, peer, inq, reported>>
  /\ UNCHANGED <<program, bridgeVars, histVars>>
  /\ UNCHANGED <<mainpc, others>>

\* handle_client, lines 79-82: thread1.join(), then thread2.join(), then the
\* "Session ended" record.
handle_client_join(i) ==
  /\ program = "tcp_forwarder"
  /\ mainpc = "accept"
  /\ hc = IF i = 1 THEN "join1" ELSE "join2"
  /\ th[i] = "done"
  /\ hc' = IF i = 1 THEN "join2" ELSE "finally"
  /\ reported' = IF i = 2 THEN TRUE ELSE reported
  /\ UNCHANGED <<th, buf, sk, peer, inq>>
  /\ UNCHANGED <<program, bridgeVars, histVars>>
  /\ UNCHANGED <<mainpc, others>>

\* handle_client, lines 86-95: the finally closes pusr_socket (when it is
\* not None) and client_socket. A thread that is inside recv on a socket
\* closed under it either finds the descriptor gone (its recv raises) or
\* stays in the system call, which still holds the connection ("wedged").
finally_close_connected_only(st) == IF st = "open" THEN "closed" ELSE st

\* handle_client, lines 87-95: the state of a socket after the finally.
\* pusr_socket is closed when it is not None, that is when socket.socket
\* returned, connected or not; what close raises is swallowed.
finally_close(st) == IF st = "none" THEN "none" ELSE "closed"

handle_client_finally ==
  /\ program = "tcp_forwarder"
  /\ mainpc = "accept"
  /\ hc = "finally"
  /\ sk' = [s \in Sockets |-> [sk[s] EXCEPT !.state = finally_close(@)]]
  /\ \E w \in [Threads -> BOOLEAN] :
       th' = [i \in Threads |->
                IF th[i] = "recv" /\ w[i] THEN "wedged" ELSE th[i]]
  /\ hc' = "done"
  /\ UNCHANGED <<buf, peer, inq, reported>>
  /\ UNCHANGED <<program, bridgeVars, histVars>>
  /\ UNCHANGED <<mainpc, others>>

\* forward_data, lines 33-36 and 39-40: data = source.recv(8192). It blocks
\* while the source has nothing to report. A closed descriptor raises; a
\* read side shut down locally, and a peer that has finished sending, give
\* b'' once the received bytes are taken; a reset raises.
forward_data_recv(i) ==
  /\ program = "tcp_forwarder"
  /\ mainpc = "accept"
  /\ th[i] \in {"recv", "wedged"}
  /\ LET s == source(i) IN
       \/ /\ th[i] = "recv"
          /\ sk[s].state = "closed"
          /\ th' = [th EXCEPT ![i] = "shut_src"]
          /\ UNCHANGED <<buf, inq, histVars>>
       \/ /\ th[i] = "wedged" \/ sk[s].state = "open"
          /\ \/ /\ peer[s] = "reset"
                /\ th' = [th EXCEPT ![i] = "shut_src"]
                /\ UNCHANGED <<buf, inq, histVars>>
             \/ /\ peer[s] # "reset"
                /\ inq[s] = 0
                /\ sk[s].rdShut \/ peer[s] = "fin"
                /\ th' = [th EXCEPT ![i] = "shut_src"]
                /\ UNCHANGED <<buf, inq, histVars>>
             \/ /\ peer[s] # "reset"
                /\ \E n \in 1..MaxChunk :
                     /\ n <= inq[s]
                     /\ inq' = [inq EXCEPT ![s] = @ - n]
                     /\ buf' = [buf EXCEPT ![i] = n]
                     /\ rd' = [rd EXCEPT ![i] = @ \o Chunk(i, n)]
                     /\ UNCHANGED wr
                /\ th' = [th EXCEPT ![i] = "send"]
  /\ UNCHANGED <<hc, sk, peer, reported>>
  /\ UNCHANGED <<program, bridgeVars>>
  /\ UNCHANGED <<mainpc, others>>

\* What follows destination.sendall(data) in forward_data (lines 32-40): the
\* next recv when it returned, the finally when it raised.
after_sendall(sent) == IF sent THEN "recv" ELSE "shut_src"

\* forward_data, lines 37-40: destination.sendall(data) on the blocking
\* socket sends every byte, or raises after the k < n bytes it sent: always
\* on a socket that is closed, unconnected, shut down for writing or reset,
\* possibly once the peer has closed.
forward_data_sendall(i) ==
  /\ program = "tcp_forwarder"
  /\ mainpc = "accept"
  /\ th[i] = "send"
  /\ LET d == destination(i)
         n == buf[i]
         c == [j \in 1..n |-> Len(rd[i]) - n + j]
         broken == sk[d].state # "open" \/ sk[d].wrShut \/ peer[d] = "reset"
     IN \E sent \in BOOLEAN, k \in 0..MaxChunk :
          /\ broken => ~sent
          /\ ~sent => ~(peer[d] = "connected" /\ ~broken)
          /\ IF sent THEN k = n ELSE k < n
          /\ broken => k = 0
          /\ wr' = [wr EXCEPT ![i] = @ \o Take(c, k)]
          /\ th' = [th EXCEPT ![i] = after_sendall(sent)]
  /\ buf' = [buf EXCEPT ![i] = 0]
  /\ UNCHANGED <<hc, sk, peer, inq, reported, rd>>
  /\ UNCHANGED <<program, bridgeVars>>
  /\ UNCHANGED <<mainpc, others>>

\* forward_data, lines 42-45: source.shutdown(socket.SHUT_RD); what it
\* raises (on a closed or unconnected socket) is swallowed.
forward_data_shutdown_source(i) ==
  /\ program = "tcp_forwarder"
  /\ mainpc = "accept"
  /\ th[i] = "shut_src"
  /\ sk' = [sk EXCEPT ![source(i)].rdShut = @ \/ sk[source(i)].state = "open"]
  /\ th' = [th EXCEPT ![i] = "shut_dst"]
  /\ UNCHANGED <<hc, buf, peer, inq, reported>>
  /\ UNCHANGED <<program, bridgeVars, histVars>>
  /\ UNCHANGED <<mainpc, others>>

\* forward_data, lines 46-49: destination.shutdown(socket.SHUT_WR), errors
\* swallowed; the thread returns.
forward_data_shutdown_destination_rdwr(i) ==
  /\ program = "tcp_forwarder"
  /\ mainpc = "accept"
  /\ th[i] = "shut_dst"
  /\ sk' = [sk EXCEPT ![destination(i)].wrShut =
                        @ \/ sk[destination(i)].state = "open",
                      ![destination(i)].rdShut =
                        @ \/ sk[destination(i)].state = "open"]
  /\ th' = [th EXCEPT ![i] = "done"]
  /\ UNCHANGED <<hc, buf, peer, inq, reported>>
  /\ UNCHANGED <<program, bridgeVars, histVars>>
  /\ UNCHANGED <<mainpc, others>>

forward_data_shutdown_destination(i) ==
  /\ program = "tcp_forwarder"
  /\ mainpc = "accept"
  /\ th[i] = "shut_dst"
  /\ sk' = [sk EXCEPT ![destination(i)].wrShut =
                        @ \/ sk[destination(i)].state = "open"]
  /\ th' = [th EXCEPT ![i] = "done"]
  /\ UNCHANGED <<hc, buf, peer, inq, reported>>
  /\ UNCHANGED <<program, bridgeVars, histVars>>
  /\ UNCHANGED <<mainpc, others>>

\* The remote end of socket s can still be heard: the socket is connected
\* and open here, or a thread is still inside recv on it.
Connected(s) ==
  \/ sk[s].state = "open"
  \/ \E i \in Threads : source(i) = s /\ th[i] = "wedged"

\* The direction whose source is socket s.
dirOf(s) == IF s = "client" THEN 1 ELSE 2

\* The remote end of s sends one more byte.
peer_send(s) ==
  /\ program = "tcp_forwarder"
  /\ mainpc = "accept"
  /\ Connected(s)
  /\ peer[s] = "connected"
  /\ Len(rd[dirOf(s)]) + inq[s] < MaxBytes
  /\ inq' = [inq EXCEPT ![s] = @ + 1]
  /\ UNCHANGED <<hc, th, buf, sk, peer, reported>>
  /\ UNCHANGED <<program, bridgeVars, histVars>>
  /\ UNCHANGED <<mainpc, others>>

\* The remote end of s closes, or shuts down its sending side.
peer_close(s) ==
  /\ program = "tcp_forwarder"
  /\ mainpc = "accept"
  /\ Connected(s)
  /\ peer[s] = "connected"
  /\ peer' = [peer EXCEPT ![s] = "fin"]
  /\ UNCHANGED <<hc, th, buf, sk, inq, reported>>
  /\ UNCHANGED <<program, bridgeVars, histVars>>
  /\ UNCHANGED <<mainpc, others>>

\* The connection of s is reset; bytes not yet received are lost.
peer_reset(s) ==
  /\ program = "tcp_forwarder"
  /\ mainpc = "accept"
  /\ Connected(s)
  /\ peer[s] \in {"connected", "fin"}
  /\ peer' = [peer EXCEPT ![s] = "reset"]
  /\ inq' = [inq EXCEPT ![s] = 0]
  /\ UNCHANGED <<hc, th, buf, sk, reported>>
  /\ UNCHANGED <<program, bridgeVars, histVars>>
  /\ UNCHANGED <<mainpc, others>>

FwdInit ==
  /\ hc = "accept"
  /\ th = [i \in Threads |-> "unstarted"]
  /\ buf = [i \in Threads |-> 0]
  /\ sk = [s \in Sockets |-> [state |-> "none", rdShut |-> FALSE, wrShut |-> FALSE]]
  /\ peer = [s \in Sockets |-> "connected"]
  /\ inq = [s \in Sockets |-> 0]
  /\ reported = FALSE
  /\ mainpc = "accept"
  /\ others = 0

\* The steps of handle_client.
HandleClientStep ==
  \/ handle_client_connect
  \/ \E i \in Threads : handle_client_start(i)
  \/ \E i \in Threads : handle_client_join(i)
  \/ handle_client_finally

\* The steps of forward_data in thread i.
ThreadStep(i) ==
  \/ forward_data_recv(i)
  \/ forward_data_sendall(i)
  \/ forward_data_shutdown_source(i)
  \/ forward_data_shutdown_destination(i)

\* The steps of the forwarder process itself.
FwdStep == HandleClientStep \/ \E i \in Threads : ThreadStep(i)

\* The steps of main and of its signal handler, and the end of a further
\* session.
MainStep ==
  \/ main_accept
  \/ main_accept_more
  \/ other_session_end
  \/ main_accept_error
  \/ signal_handler

\* The steps of the two remote ends.
PeerStep ==
  \/ \E s \in Sockets : peer_send(s)
  \/ \E s \in Sockets : peer_close(s)
  \/ \E s \in Sockets : peer_reset(s)

FwdNext == FwdStep \/ MainStep \/ PeerStep

-----------------------------------------------------------------------------
Init ==
  /\ program \in {"brokk_bridge", "tcp_forwarder"}
  /\ BridgeInit
  /\ FwdInit
  /\ rd = [d \in Directions |-> <<>>]
  /\ wr = [d \in Directions |-> <<>>]

Next == BridgeNext \/ FwdNext

Spec == Init /\ [][Next]_vars

\* The scheduler runs every thread of the forwarder that can take a step,
\* and the main thread of the bridge: run() goes on, and time passes in its
\* select and sleep. Nothing obliges the remote ends to do anything, nor a
\* signal to arrive.
FairSpec ==
  /\ Spec
  /\ WF_vars(RunStep)
  /\ WF_vars(HandleClientStep)
  /\ \A i \in Threads : WF_vars(ThreadStep(i))

-----------------------------------------------------------------------------
(***************************************************************************)
(* Properties                                                              *)
(***************************************************************************)

Bridge == program = "brokk_bridge"
Forwarder == program = "tcp_forwarder"

\* Both handles of the latest attempt are closed and forgotten.
BothClosed ==
  /\ sock = "None" /\ ser = "None"
  /\ tcpState = "closed" /\ serState = "closed"
  /\ registered = {}

\* What a handler met when one endpoint failed: the TCP recv raised or
\* returned 0 bytes, the serial read or write raised.
EndpointFailures ==
  {"tcp_error", "tcp_eof", "serial_read_error", "serial_write_error"}

\* C1. Fate-sharing in BrokkBridge: when a handler of run_bridge_loop meets a
\* failure of one endpoint, run_bridge_loop returns False, and both the TCP
\* socket and the serial port are closed by the time run() sleeps the
\* backoff, tests the while condition again or dials again, also the endpoint
\* that never failed.
C1_FateSharing ==
  (Bridge /\ lastEvent \in EndpointFailures) =>
    /\ pc \notin {"loop", "select", "dispatch"}
    /\ pc = "post" => success = FALSE
    /\ pc \in {"sleep_lost", "while", "dial"} => BothClosed

\* The TCP side was reset, the serial port never failed, and the supervisor
\* is in the backoff sleep with both closed.
C1_Witness ==
  /\ Bridge /\ pc = "sleep_lost" /\ lastEvent = "tcp_error"
  /\ tcpState = "closed" /\ serState = "closed"

\* Both forward_data threads of the session have returned and both sockets
\* are closed.
SessionTornDown ==
  /\ \A i \in Threads : th[i] = "done"
  /\ \A s \in Sockets : sk[s].state = "closed"

\* C2. Fate-sharing in tcp_forwarder: once one of the two started
\* forward_data threads has terminated, the session eventually has both
\* threads finished and both sockets closed, whatever the remote ends do or
\* do not do from then on.
C2_SiblingStopped ==
  ((Forwarder /\ (\E i \in Threads : th[i] = "done")
              /\ (\A i \in Threads : th[i] # "unstarted"))
     ~> SessionTornDown)

\* C3. In handle_client no socket is closed, and the session is not reported
\* ended, while a forward_data thread of the session is live.
C3_NoCloseWhileLive ==
  Forwarder =>
    \A i \in Threads :
      Live(i) => /\ ~reported
                 /\ \A s \in Sockets : sk[s].state # "closed"

\* A read of direction d is under way or about to start.
AtRead(d) ==
  \/ Bridge /\ pc \in {"loop", "select", "dispatch"}
  \/ Forwarder /\ th[d] \in {"recv", "wedged"}

\* C4. In both programs and for each direction, the bytes handed to the
\* destination in a session are a prefix of the bytes read from the source
\* in that session, whatever the sizes of the reads, and whenever a read of
\* the direction can start every byte read before has been handed on.
C4_OrderPreserved ==
  \A d \in Directions :
    /\ IsPrefix(wr[d], rd[d])
    /\ AtRead(d) => wr[d] = rd[d]

\* Three bytes read from the TCP socket in more than one chunk have all
\* reached the serial port, in order, and the loop is ready to read again.
C4_Witness ==
  /\ Bridge /\ pc = "loop" /\ running
  /\ rd[1] = <<1, 2, 3>> /\ wr[1] = rd[1]

\* C5. RS485 -> TCP never drops bytes of a chunk it has read because the
\* socket could not take them at once: bytes read and not written are only
\* ever left behind by a real I/O error of the send.
C5_FullDrain ==
  (Bridge /\ wr[2] # rd[2]) => lastEvent = "send_error"

\* What a handler met when its read found no data.
NoData == {"serial_empty", "tcp_wouldblock"}

\* A handler of run_bridge_loop returns in this step.
HandlerStep == Bridge /\ pc = "dispatch" /\ events' # events

\* C6. A read that finds no data (the serial read returns 0 bytes, the TCP
\* recv raises BlockingIOError or InterruptedError) writes nothing and keeps
\* run_bridge_loop running; a TCP recv of 0 bytes ends it with False.
C6_IdleReadKeepsSession ==
  [][ /\ (HandlerStep /\ lastEvent' \in NoData) =>
           /\ pc' \in {"loop", "dispatch"}
           /\ UNCHANGED <<rd, wr, success>>
      /\ (HandlerStep /\ lastEvent' = "tcp_eof") =>
           /\ pc' = "post" /\ success' = FALSE
           /\ UNCHANGED <<rd, wr>>
    ]_vars

\* The serial read has just returned no bytes and the session goes on.
C6_Witness ==
  /\ Bridge /\ lastEvent = "serial_empty" /\ pc \in {"loop", "dispatch"}
  /\ running /\ sock = "socket" /\ ser = "Serial"

\* C7. When every dial before the current one failed and the current one
\* succeeded, run() enters run_bridge_loop after exactly as many backoff
\* sleeps as there were failed dials; and a failed dial leads to the backoff
\* sleep, never to the end of run().
C7_ReconnectConverges ==
  /\ [](Bridge /\ pc = "bridge" /\ nDialFails + 1 = nDials
          => nSleeps = nDialFails)
  /\ [][ (Bridge /\ pc = "dial" /\ pc' # pc /\ sock' = "None") =>
           /\ pc' = "sleep_dial"
           /\ nSleeps' = nSleeps + 1
           /\ retcode' = not_returned
       ]_vars

\* Dials 1 and 2 failed, dial 3 succeeded: Active after two sleeps.
C7_Witness ==
  /\ Bridge /\ pc = "bridge" /\ ~stopRequested
  /\ nDials = 3 /\ nDialFails = 2 /\ nSleeps = 2 /\ nSessions = 0

\* C8. When a session has ended and no stop is requested, run() goes to the
\* backoff sleep, from the sleep to the while test and from there to the next
\* dial, whatever ended the session; an exception of the selector's register
\* leads to the backoff sleep as well.
C8_SessionEndRedials ==
  [][ /\ (Bridge /\ pc = "post" /\ pc' # pc /\ running) => pc' = "sleep_lost"
      /\ (Bridge /\ pc = "bridge" /\ pc' # pc /\ lastEvent' = "register_error") =>
           pc' = "sleep_exc"
      /\ (Bridge /\ pc \in {"sleep_lost", "sleep_exc"} /\ pc' # pc) =>
           pc' = "while"
      /\ (Bridge /\ pc = "while" /\ pc' # pc /\ running) => pc' = "dial"
    ]_vars

\* After a graceful close by the remote end the supervisor dials again.
C8_Witness ==
  /\ Bridge /\ pc = "dial" /\ running /\ ~stopRequested
  /\ lastEvent = "tcp_eof" /\ nSessions = 1 /\ nSleeps = 1

\* C9, as claimed. run() returns only after a stop was requested.
C9_ReturnsOnlyOnStop ==
  (Bridge /\ pc = "done") => stopRequested

\* C9, amended. run() returns only after a stop was requested, with status
\* 0, or with status 1 when the serial port could not be opened.
C9_ReturnsOnStopOrSerialFailure ==
  (Bridge /\ pc = "done") =>
    \/ retcode = 0 /\ stopRequested
    \/ retcode = 1 /\ ser = "None"

\* run() has returned 1 on a reconnect attempt, with no stop requested.
C9_Witness ==
  /\ Bridge /\ pc = "done" /\ retcode = 1 /\ ~stopRequested /\ nSessions >= 1

\* C10. A failed open of the serial port ends run() with status 1 at once,
\* on any attempt, with no sleep and no dial after it; a failed TCP dial is
\* followed by the backoff sleep, the while test and, while running, the
\* next dial.
C10_RetryAsymmetry ==
  [][ /\ (Bridge /\ pc = "serial" /\ pc' # pc /\ ser' = "None") =>
           /\ pc' = "done" /\ retcode' = 1
           /\ nSleeps' = nSleeps /\ nDials' = nDials
      /\ (Bridge /\ pc = "done") => UNCHANGED vars
      /\ (Bridge /\ pc = "dial" /\ pc' # pc /\ sock' = "None") =>
           pc' = "sleep_dial" /\ nSleeps' = nSleeps + 1
      /\ (Bridge /\ pc = "sleep_dial" /\ pc' # pc) => pc' = "while"
      /\ (Bridge /\ pc = "while" /\ pc' # pc /\ running) => pc' = "dial"
    ]_vars

\* A TCP dial failed and was retried, and the serial open of the retry
\* failed: run() has returned 1.
C10_Witness ==
  /\ Bridge /\ pc = "done" /\ retcode = 1
  /\ nDials = 2 /\ nDialFails = 1 /\ nSleeps = 1 /\ nSessions = 0

\* C11, as claimed. A run() that ends after a stop request returns 0, and a
\* status other than 0 is returned only when no session has been Active
\* before.
C11_StopReturnsZeroAndOneOnlyAtFirst ==
  (Bridge /\ pc = "done") =>
    /\ stopRequested => retcode = 0
    /\ retcode # 0 => nSessions = 0

\* C11, amended. run() returns 0 exactly when it leaves its while loop,
\* which it does only after stop() has cleared self.running; it returns 1
\* exactly when _setup_serial_port has failed, whatever went before.
C11_ExitStatus ==
  (Bridge /\ pc = "done") =>
    /\ retcode \in {0, 1}
    /\ retcode = 0 <=> lastEvent # "serial_open_error"
    /\ retcode = 0 => stopRequested /\ ~running
    /\ retcode = 1 => ser = "None"

\* run() has returned 1 after a session had been Active and after stop() had
\* been called: the serial port failed to open on the reconnect attempt that
\* the stop request fell into.
C11_Witness ==
  /\ Bridge /\ pc = "done" /\ retcode = 1 /\ stopRequested /\ nSessions >= 1

\* C12. When the serial port fails to open, the TCP socket that the attempt
\* had opened is closed by the time run() leaves the attempt.
C12_FirstEndpointClosed ==
  (Bridge /\ pc = "done" /\ lastEvent = "serial_open_error") =>
    sock = "None" /\ tcpState = "closed"

\* The positions of run() from which a cleared self.running leads to the
\* exit without passing the dial: Active, Backoff and what follows them.
StopPath ==
  {"loop", "select", "dispatch", "post", "while", "final"} \cup Sleeps

\* run() has returned 0 with nothing open.
Stopped ==
  /\ Bridge /\ pc = "done" /\ retcode = 0
  /\ sock = "None" /\ ser = "None"
  /\ tcpState # "open" /\ serState # "open"
  /\ registered = {}

\* C13. Once stop() has been called while run() is Active or in Backoff, no
\* dial is started any more, and run() returns 0 with every endpoint closed.
C13_StopIsOrderly ==
  /\ [][ (Bridge /\ ~running /\ pc \in StopPath) =>
           /\ nDials' = nDials
           /\ (pc' \in StopPath /\ ~running') \/ Stopped'
       ]_vars
  /\ (Bridge /\ ~running /\ pc \in {"loop", "select", "dispatch"} \cup Sleeps)
       ~> Stopped

\* stop() has been called in the middle of a backoff sleep that followed a
\* lost session.
C13_Witness ==
  /\ Bridge /\ pc = "sleep_lost" /\ ~running /\ stopRequested
  /\ timer > 0 /\ timer < reconnect_delay

\* C14. After stop() was called while run_bridge_loop is in its select, the
\* select goes on for at most one timeout of 1 s; run_bridge_loop returns,
\* and run() closes both endpoints and returns 0 without any backoff sleep.
C14_StopLatencyActive ==
  /\ []((Bridge /\ pc \in {"loop", "select", "dispatch", "post"}) =>
          stopAge <= select_timeout)
  /\ [][ (Bridge /\ ~running /\ pc \in {"loop", "select", "dispatch", "post", "final"}) =>
           /\ nSleeps' = nSleeps
           /\ nDials' = nDials
           /\ \/ pc' \in {"loop", "select", "dispatch", "post", "final"} /\ ~running'
              \/ Stopped'
       ]_vars

\* stop() came while run_bridge_loop was in its select; the select has run
\* for its full second since, and returned no event.
C14_Witness ==
  /\ Bridge /\ pc = "loop" /\ ~running /\ stopAge = select_timeout
  /\ events = <<>>

\* C15. During a backoff sleep, a stop request is never older than the 1 s
\* latency bound: the sleep ends within 1 s of stop().
C15_StopSeenMidSleep ==
  (Bridge /\ pc \in Sleeps) => stopAge <= select_timeout

\* C16. No exception leaves _cleanup, whether or not close() raises; and a
\* _cleanup that follows another one, with no open in between, calls close
\* on no handle and leaves sock = None, ser = None and nothing registered.
C16_CleanupIdempotent ==
  /\ [](Bridge => ~escaped)
  /\ [][ (Bridge /\ pc = "final" /\ pc' = "done"
            /\ tcpState # "open" /\ serState # "open") =>
           /\ UNCHANGED <<closes, tcpState, serState>>
           /\ sock' = "None" /\ ser' = "None" /\ registered' = {}
       ]_vars

\* run() has returned after a session that stop() ended: _cleanup ran at line
\* 271 and again at line 288, and each handle was closed once.
C16_Witness ==
  /\ Bridge /\ pc = "done" /\ retcode = 0 /\ nSessions >= 1
  /\ lastEvent \notin {"register_error", "serial_open_error"}
  /\ closes = [tcp |-> 1, serial |-> 1]
  /\ tcpState = "closed" /\ serState = "closed"

\* C17. Each handle is closed at most once, and when run() has returned
\* each handle that was opened has been closed exactly once.
C17_ClosedExactlyOnce ==
  Bridge =>
    /\ closes.tcp <= 1 /\ closes.serial <= 1
    /\ pc = "done" =>
         /\ tcpState # "none" => closes.tcp = 1
         /\ serState # "none" => closes.serial = 1

\* What lastEvent records when an exception was raised inside a session: by
\* recv, sendall, the serial read or write, select or register.
IOErrors ==
  {"tcp_error", "serial_write_error", "send_wouldblock", "send_error",
   "serial_read_error", "select_error", "register_error"}

\* C18. An exception raised by recv, sendall, the serial read or write,
\* select or register during a session only ends the session: run() cleans
\* up and sleeps before it dials again, and it does not return because of
\* the exception nor let it propagate.
C18_IOErrorsEndSessionOnly ==
  /\ []((Bridge /\ lastEvent \in IOErrors) =>
          /\ ~escaped
          /\ pc \in {"final", "done"} => stopRequested /\ ~running
          /\ pc = "done" => retcode = 0)
  /\ [][ /\ (Bridge /\ pc \in {"bridge", "select", "dispatch"} /\ pc' # pc
               /\ lastEvent' \in IOErrors) =>
              /\ pc' \in {"post", "sleep_exc"}
              /\ retcode' = retcode
              /\ pc' = "post" => ~success'
         /\ (Bridge /\ pc = "post" /\ pc' # pc /\ ~success /\ running) =>
              pc' = "sleep_lost" /\ BothClosed'
       ]_vars

\* sendall raised during a session with no stop requested: run() is in the
\* backoff sleep, both handles closed.
C18_Witness ==
  /\ Bridge /\ pc = "sleep_lost" /\ lastEvent = "send_error"
  /\ ~stopRequested /\ BothClosed

\* C19. A failed TCP dial takes run() straight into the backoff sleep: the
\* serial port is opened only after a successful dial, and during the sleep
\* that follows a failed dial no endpoint is open.
C19_DialFailureSkipsSerial ==
  /\ []((Bridge /\ pc = "sleep_dial") =>
          /\ sock = "None" /\ ser = "None"
          /\ tcpState # "open" /\ serState # "open"
          /\ registered = {})
  /\ [][ /\ (Bridge /\ pc = "dial" /\ pc' # pc /\ sock' = "None") =>
              pc' = "sleep_dial" /\ UNCHANGED <<ser, serState>>
         /\ (Bridge /\ pc' = "serial" /\ pc # "serial") =>
              pc = "dial" /\ sock' = "socket"
         /\ (Bridge /\ serState' = "open" /\ serState # "open") =>
              pc = "serial" /\ tcpState = "open"
       ]_vars

\* The dial of a reconnect attempt failed: run() sleeps, the handles of the
\* earlier session closed.
C19_Witness ==
  /\ Bridge /\ pc = "sleep_dial" /\ nSessions = 1 /\ nDials = 2
  /\ tcpState = "closed" /\ serState = "closed"

\* C20. Exactly one backoff sleep lies between two consecutive TCP dials,
\* and every backoff sleep lasts reconnect_delay = 5 s, whatever went
\* before.
C20_BackoffConstant ==
  /\ []((Bridge /\ pc = "dial") => nSleeps = nDials)
  /\ [][ /\ (Bridge /\ pc' \in Sleeps /\ pc \notin Sleeps) =>
              timer' = reconnect_delay /\ nSleeps' = nSleeps + 1
         /\ (Bridge /\ pc \in Sleeps /\ timer' # timer) =>
              timer' = timer - 1 /\ pc' = pc
         /\ (Bridge /\ pc \in Sleeps /\ pc' # pc) =>
              timer = 0 /\ pc' = "while"
       ]_vars

\* run() is about to dial for the third time: one sleep after the failed
\* first dial, one after the session that the second dial opened.
C20_Witness ==
  /\ Bridge /\ pc = "dial" /\ nDials = 2 /\ nSleeps = 2
  /\ nDialFails = 1 /\ nSessions = 1

\* The positions of run() inside the loop of run_bridge_loop.
InLoop == {"loop", "select", "dispatch"}

\* What lastEvent records when a handler returned False.
SessionEnders ==
  {"tcp_error", "tcp_eof", "serial_write_error", "send_wouldblock",
   "send_error", "serial_read_error"}

\* C21, as claimed. Nothing is opened inside run_bridge_loop nor inside
\* handle_client; the session ends at the first handler failure.
C21_NoOpenInsideSession ==
  [][ /\ (Bridge /\ pc \in InLoop) =>
           UNCHANGED <<sock, ser, tcpState, serState, nDials>>
      /\ (Forwarder /\ hc \notin {"accept", "done"}) =>
           \A s \in Sockets : sk[s].state # "open" => sk'[s].state # "open"
    ]_vars

\* C21, amended. Nothing is opened inside run_bridge_loop, which returns
\* False at the first handler failure; handle_client opens the PUSR socket
\* itself, once, before it starts a thread, and nothing is opened after
\* that; a forward_data thread that has left its loop never reads or sends
\* again.
C21_NoRetryInsideSession ==
  [][ /\ (Bridge /\ pc \in InLoop) =>
           UNCHANGED <<sock, ser, tcpState, serState, nDials, closes>>
      /\ (Bridge /\ pc = "dispatch" /\ pc' # pc
            /\ lastEvent' \in SessionEnders) =>
           pc' = "post" /\ ~success'
      /\ (Bridge /\ tcpState' = "open" /\ tcpState # "open") => pc = "dial"
      /\ (Bridge /\ serState' = "open" /\ serState # "open") => pc = "serial"
      /\ Forwarder =>
           /\ (sk'["client"].state = "open" /\ sk["client"].state # "open") =>
                hc = "accept"
           /\ (sk'["pusr"].state = "open" /\ sk["pusr"].state # "open") =>
                /\ hc = "connect" /\ sk["pusr"].state = "none"
                /\ \A i \in Threads : th[i] = "unstarted"
           /\ \A i \in Threads :
                th[i] \in {"shut_src", "shut_dst", "done"} =>
                  th'[i] \in {"shut_src", "shut_dst", "done", "killed"}
    ]_vars

\* A handler of run_bridge_loop has failed on sendall: run_bridge_loop has
\* returned False with both handles as they were opened, no close yet.
C21_Witness ==
  /\ Bridge /\ pc = "post" /\ ~success /\ lastEvent = "send_error"
  /\ tcpState = "open" /\ serState = "open" /\ closes = [tcp |-> 0, serial |-> 0]

\* C22. When run() is in a backoff sleep, the logger has emitted a record of
\* the failed dial or of the lost session before the sleep began.
C22_LoggedBeforeBackoff ==
  (Bridge /\ pc \in Sleeps) =>
    logged \ {"Could not set all socket options"} # {}

\* C23. When a setsockopt call fails after the connect succeeded,
\* _setup_tcp_socket still returns the socket, in non-blocking mode, and
\* run() goes on to open the serial port: no dial failure, no sleep.
C23_TuningBestEffort ==
  [][ (Bridge /\ pc = "dial" /\ pc' # pc /\ lastEvent' = "sockopt_error") =>
        /\ sock' = "socket" /\ tcpState' = "open" /\ nonblocking'
        /\ pc' = "serial"
        /\ nDialFails' = nDialFails /\ nSleeps' = nSleeps
        /\ log_level = "INFO" => "Could not set all socket options" \in logged'
    ]_vars

\* A socket option could not be set on the second dial: the socket is open,
\* non-blocking, and run() is about to open the serial port.
C23_Witness ==
  /\ Bridge /\ pc = "serial" /\ lastEvent = "sockopt_error"
  /\ sock = "socket" /\ tcpState = "open" /\ nonblocking
  /\ nDials = 2 /\ nDialFails = 1

\* C24. Every key that select reported is served in the same iteration of
\* run_bridge_loop, in turn, by one handler call that makes one read of at
\* most MaxChunk bytes of its own direction, unless an earlier handler of
\* the batch has ended the session.
C24_EveryReadyKeyServed ==
  /\ [](Bridge => /\ pc = "dispatch" => events # <<>>
                  /\ pc \in {"loop", "select"} => events = <<>>)
  /\ [][ (Bridge /\ pc = "dispatch" /\ pc' # pc) =>
           /\ \/ pc' = "post" /\ ~success'
              \/ /\ events' = Tail(events)
                 /\ pc' = IF events' = <<>> THEN "loop" ELSE "dispatch"
           /\ LET d == IF Head(events) = "tcp" THEN 1 ELSE 2 IN
                /\ Len(rd'[d]) <= Len(rd[d]) + MaxChunk
                /\ rd'[3 - d] = rd[3 - d] /\ wr'[3 - d] = wr[3 - d]
       ]_vars

\* select reported both keys: the TCP handler has forwarded its chunk, and
\* the serial key is next in the same batch.
C24_Witness ==
  /\ Bridge /\ pc = "dispatch" /\ events = <<"serial">>
  /\ lastEvent = "tcp_data" /\ Len(wr[1]) >= 1

\* C27. Once stop() has been called, self.running is False and stays False.
C27_StopNeverLost ==
  (Bridge /\ stopRequested) => ~running

\* C28. While run() dials or sleeps it holds no open endpoint: both handles
\* are closed and forgotten; the loop of run_bridge_loop runs only with
\* both handles open.
C28_ResourceInvariant ==
  Bridge =>
    /\ pc \in {"dial"} \cup Sleeps =>
         /\ sock = "None" /\ ser = "None" /\ registered = {}
         /\ tcpState # "open" /\ serState # "open"
    /\ pc \in InLoop =>
         /\ sock = "socket" /\ ser = "Serial"
         /\ tcpState = "open" /\ serState = "open"
         /\ registered = {"tcp", "serial"}

\* run() is about to dial again after a session: both handles of the
\* session are closed, each once.
C28_Witness ==
  /\ Bridge /\ pc = "dial" /\ nSessions >= 1
  /\ tcpState = "closed" /\ serState = "closed"
  /\ closes = [tcp |-> 1, serial |-> 1]

\* C25. While a forward_data thread of a session is live, main accepts no
\* further edge connection.
C25_OneSessionAtATime ==
  [][ (Forwarder /\ (\E i \in Threads : Live(i))) => others' <= others ]_vars

\* C26. The accept loop of main ends only on SIGINT or SIGTERM.
C26_ServesUntilSignalled ==
  (Forwarder /\ mainpc # "accept") => mainpc = "signal_exit"

\* C29. When handle_client has returned, client_socket is closed and
\* pusr_socket is closed if it was created; a forward_data thread is
\* started only with pusr_socket connected, so none is started when the
\* connect fails.
C29_HandleClientCloses ==
  /\ []((Forwarder /\ hc = "done") =>
          /\ sk["client"].state = "closed"
          /\ sk["pusr"].state \in {"none", "closed"})
  /\ [][ Forwarder =>
           /\ (hc = "connect" /\ hc' = "finally") =>
                /\ sk'["pusr"].state \in {"none", "unconnected"}
                /\ \A i \in Threads : th'[i] = "unstarted"
           /\ \A i \in Threads :
                (th[i] = "unstarted" /\ th'[i] # "unstarted") =>
                  /\ hc = (IF i = 1 THEN "start1" ELSE "start2")
                  /\ sk["pusr"].state = "open"
           /\ hc \in {"finally", "done"} =>
                \A i \in Threads : th[i] = "unstarted" => th'[i] = "unstarted"
       ]_vars

\* The connect to the PUSR device failed on a created socket:
\* handle_client has returned with both sockets closed and no thread
\* started.
C29_Witness ==
  /\ Forwarder /\ hc = "done"
  /\ sk["client"].state = "closed" /\ sk["pusr"].state = "closed"
  /\ \A i \in Threads : th[i] = "unstarted"
  /\ \A d \in Directions : rd[d] = <<>>

\* The other thread of a session.
sibling(i) == 3 - i

\* C30. A forward_data thread that ends shuts down the read half of its
\* source and the write half of its destination, and nothing else: each
\* half is shut down by the one thread it belongs to, once, and while the
\* sibling is still in its loop its own source can be read and its own
\* destination written, so bytes that arrive for it are still taken.
C30_HalfClose ==
  /\ [](Forwarder =>
          \A i \in Threads :
            (th[i] = "done" /\ th[sibling(i)] \in {"recv", "send"}
               /\ hc \in {"join1", "join2"}) =>
              /\ sk[source(i)].rdShut /\ sk[destination(i)].wrShut
              /\ ~sk[source(sibling(i))].rdShut
              /\ ~sk[destination(sibling(i))].wrShut
              /\ \A s \in Sockets : sk[s].state = "open"
              /\ (th[sibling(i)] = "recv" /\ inq[source(sibling(i))] > 0
                    /\ peer[source(sibling(i))] # "reset"
                    /\ mainpc = "accept") =>
                   ENABLED forward_data_recv(sibling(i)))
  /\ [][ Forwarder =>
           \A s \in Sockets :
             /\ sk'[s].rdShut # sk[s].rdShut =>
                  /\ ~sk[s].rdShut
                  /\ th[dirOf(s)] = "shut_src" /\ th'[dirOf(s)] = "shut_dst"
             /\ sk'[s].wrShut # sk[s].wrShut =>
                  /\ ~sk[s].wrShut
                  /\ th[sibling(dirOf(s))] = "shut_dst"
                  /\ th'[sibling(dirOf(s))] = "done"
       ]_vars

\* The edge device has finished sending and thread 1 has ended after its
\* two shutdowns; a byte of the PUSR device has arrived since, and thread 2
\* is in recv to take it.
C30_Witness ==
  /\ Forwarder /\ hc = "join2" /\ th[1] = "done" /\ th[2] = "recv"
  /\ peer["client"] = "fin" /\ peer["pusr"] = "connected"
  /\ sk["client"].rdShut /\ sk["pusr"].wrShut
  /\ inq["pusr"] >= 1

=============================================================================
